---- MODULE Spec2Model ----
(***************************************************************************)
(* dev-tools: a command-line utility with a base64 command and a uuid      *)
(* command (src/main.go) and its error package (src/pkg/errs/errs.go).     *)
(*                                                                         *)
(* Three specifications share this module:                                 *)
(*   Spec      one invocation of the program: main, run, the two command   *)
(*             handlers, readInput, writeOutput, usage.                    *)
(*   SpecCodec the base64 handler's transformation applied twice, encode   *)
(*             then decode, the second run reading the first one's output. *)
(*   SpecErrs  chains of errors built by errs.New and errs.Wrap.           *)
(* Byte strings are sequences of integers 0..255.                          *)
(***************************************************************************)
EXTENDS Integers, Sequences, FiniteSets, TLC

VARIABLES
    \* ---- Spec: the process's inputs
    argv,        \* os.Args[1:], a sequence of argument tokens
    fileSys,     \* the file system: path -> [exists, data]
    fs0,         \* the file system as the process found it
    stdin,       \* os.Stdin: [mode, data], data what a read to end-of-stream yields
    clipboard,   \* the clipboard backend: [ok, data]
    \* ---- Spec: the process's state and effects
    pc,          \* position of main
    flags,       \* the option variables the flag sets are bound to
    selected,    \* the command run resolved ("" when none)
    parsedBy,    \* the flag sets that parsed cmdArgs, in order
    invoked,     \* the handlers invoked, in order
    inputRead,   \* the bytes readInput returned to the base64 handler
    opened,      \* the input sources readInput opened or read, in order
    writerCalls, \* the calls of writeOutput, in order (see Call)
    generator,   \* the uuid generator the uuid handler called ("" when none)
    stdout,      \* bytes written to standard output
    stderr,      \* lines written to the error stream
    runErr,      \* the error run returned
    exitCode,    \* the exit status, once pc = "exited"
    \* ---- SpecCodec
    cpc, cInput, cEncoded, cDecoded,
    \* ---- SpecErrs
    epc, errCause, errChain

cliVars == <<argv, fileSys, fs0, stdin, clipboard, pc, flags,
             selected, parsedBy, invoked, inputRead, opened, writerCalls, generator,
             stdout, stderr, runErr, exitCode>>
codecVars == <<cpc, cInput, cEncoded, cDecoded>>
errsVars == <<epc, errCause, errChain>>
vars == <<cliVars, codecVars, errsVars>>

(***************************************************************************)
(* Bounds of the model.                                                    *)
(***************************************************************************)
\* The longest byte string the codec specification draws.
MaxLen == 3
\* The most flag arguments that follow the command name.
MaxArgs == 2
\* The deepest chain of errs.Wrap calls.
MaxDepth == 3

\* All sequences over S of length at most n.
SeqsUpTo(S, n) == UNION {[1..k -> S] : k \in 0..n}

(***************************************************************************)
(* encoding/base64, RawStdEncoding: the standard alphabet, no padding,     *)
(* not strict.                                                             *)
(***************************************************************************)
\* "ABCDEFGHIJKLMNOPQRSTUVWXYZabcdefghijklmnopqrstuvwxyz0123456789+/"
encodeStd ==
    <<65, 66, 67, 68, 69, 70, 71, 72, 73, 74, 75, 76, 77,
      78, 79, 80, 81, 82, 83, 84, 85, 86, 87, 88, 89, 90,
      97, 98, 99, 100, 101, 102, 103, 104, 105, 106, 107, 108, 109,
      110, 111, 112, 113, 114, 115, 116, 117, 118, 119, 120, 121, 122,
      48, 49, 50, 51, 52, 53, 54, 55, 56, 57, 43, 47>>

\* The character of a 6-bit value.
EncodeChar(v) == encodeStd[v + 1]

\* The decode map's entry of a byte that is no alphabet character (0xff).
InvalidChar == 255

\* decodeMap: the 6-bit value of an alphabet character, InvalidChar otherwise.
DecodeChar(c) ==
    IF \E i \in 1..64 : encodeStd[i] = c
    THEN (CHOOSE i \in 1..64 : encodeStd[i] = c) - 1
    ELSE InvalidChar

\* RawStdEncoding = StdEncoding.WithPadding(NoPadding)
NoPadding == -1
padChar == NoPadding
strict == FALSE

\* val>>n & 0x3F
Sextet(val, shift) == (val \div (2 ^ shift)) % 64

RECURSIVE EncodeFrom(_, _)
\* Encoding.Encode from the 1-based index si on: three bytes make four
\* characters; a remainder of one byte makes two, of two bytes three.
EncodeFrom(src, si) ==
    LET remain == Len(src) - si + 1 IN
    IF remain >= 3 THEN
        LET val == src[si] * 65536 + src[si + 1] * 256 + src[si + 2] IN
        <<EncodeChar(Sextet(val, 18)), EncodeChar(Sextet(val, 12)),
          EncodeChar(Sextet(val, 6)), EncodeChar(Sextet(val, 0))>>
        \o EncodeFrom(src, si + 3)
    ELSE IF remain = 0 THEN <<>>
    ELSE
        LET val == src[si] * 65536
                   + (IF remain = 2 THEN src[si + 1] * 256 ELSE 0)
            two == <<EncodeChar(Sextet(val, 18)), EncodeChar(Sextet(val, 12))>>
            third == IF remain = 2 THEN <<EncodeChar(Sextet(val, 6))>> ELSE <<>>
            pad == IF padChar # NoPadding
                   THEN [i \in 1..(3 - remain) |-> padChar] ELSE <<>>
        IN two \o third \o pad

\* base64.StdEncoding.AppendEncode(nil, src): the encoding padded with '='.
AppendEncodePadded(src) ==
    EncodeFrom(src, 1) \o [i \in 1..((3 - (Len(src) % 3)) % 3) |-> 61]

\* base64.RawStdEncoding.AppendEncode(nil, src)
AppendEncode(src) == EncodeFrom(src, 1)

RECURSIVE Gather(_, _, _)
\* The loop of decodeQuantum: collects up to four 6-bit values from si on,
\* skipping '\n' and '\r'; any other byte outside the alphabet is corrupt
\* input (with no padding character, nothing else is accepted).
Gather(src, si, dbuf) ==
    IF Len(dbuf) = 4 THEN [si |-> si, dbuf |-> dbuf, err |-> FALSE]
    ELSE IF si > Len(src) THEN [si |-> si, dbuf |-> dbuf, err |-> FALSE]
    ELSE LET in == src[si]
             out == DecodeChar(in)
         IN IF out # InvalidChar THEN Gather(src, si + 1, Append(dbuf, out))
            ELSE IF in = 10 \/ in = 13 THEN Gather(src, si + 1, dbuf)
            ELSE [si |-> si + 1, dbuf |-> dbuf, err |-> TRUE]

\* decodeQuantum: one group of up to four characters to up to three bytes.
DecodeQuantum(src, si) ==
    LET g == Gather(src, si, <<>>)
        dlen == Len(g.dbuf)
        d == [j \in 1..4 |-> IF j <= dlen THEN g.dbuf[j] ELSE 0]
        val == d[1] * 262144 + d[2] * 4096 + d[3] * 64 + d[4]
        b0 == (val \div 65536) % 256
        b1 == (val \div 256) % 256
        b2 == val % 256
    IN IF g.err THEN [si |-> g.si, out |-> <<>>, err |-> TRUE]
       ELSE IF dlen = 0 THEN [si |-> g.si, out |-> <<>>, err |-> FALSE]
       ELSE IF dlen = 1 \/ (dlen < 4 /\ padChar # NoPadding)
            THEN [si |-> g.si, out |-> <<>>, err |-> TRUE]
       ELSE IF dlen = 4 THEN [si |-> g.si, out |-> <<b0, b1, b2>>, err |-> FALSE]
       ELSE IF dlen = 3
            THEN [si |-> g.si, out |-> <<b0, b1>>, err |-> strict /\ b2 # 0]
       ELSE [si |-> g.si, out |-> <<b0>>, err |-> strict /\ (b1 # 0 \/ b2 # 0)]

RECURSIVE DecodeFrom(_, _, _)
\* Encoding.Decode: quantum after quantum until the input ends or one fails.
DecodeFrom(src, si, dst) ==
    IF si > Len(src) THEN [out |-> dst, err |-> FALSE]
    ELSE LET q == DecodeQuantum(src, si)
         IN IF q.err THEN [out |-> dst, err |-> TRUE]
            ELSE DecodeFrom(src, q.si, dst \o q.out)

\* base64.RawStdEncoding.AppendDecode(nil, src)
AppendDecode(src) == DecodeFrom(src, 1, <<>>)

\* A transformation step that tests the encode flag first.
B64TransformEncodeFirst(encode, decode, input) ==
    IF encode THEN [ok |-> TRUE, output |-> AppendEncode(input)]
    ELSE IF decode THEN
        LET r == AppendDecode(input)
        IN IF r.err THEN [ok |-> FALSE, output |-> <<>>]
           ELSE [ok |-> TRUE, output |-> r.out]
    ELSE [ok |-> TRUE, output |-> <<>>]

\* The transformation step of the base64 handler: decode wins over encode;
\* with neither flag set output stays the nil slice it was declared as.
B64Transform(encode, decode, input) ==
    IF decode THEN
        LET r == AppendDecode(input)
        IN IF r.err THEN [ok |-> FALSE, output |-> <<>>]
           ELSE [ok |-> TRUE, output |-> r.out]
    ELSE IF encode THEN [ok |-> TRUE, output |-> AppendEncode(input)]
    ELSE [ok |-> TRUE, output |-> <<>>]

(***************************************************************************)
(* Command-line arguments and the flag package.  An argument is a token    *)
(* [dash, name, hasVal, val]: "-name", "-name=val" or a bare word.         *)
(***************************************************************************)
Flag(name) == [dash |-> TRUE, name |-> name, hasVal |-> FALSE, val |-> <<>>]
FlagVal(name, val) == [dash |-> TRUE, name |-> name, hasVal |-> TRUE, val |-> val]
Word(name) == [dash |-> FALSE, name |-> name, hasVal |-> FALSE, val |-> <<>>]
\* "--", which ends the flags
Terminator == Flag("")

\* strconv.ParseBool: "1" "t" "T" "true" "TRUE" "True" are true, "0" "f" "F"
\* "false" "FALSE" "False" false, anything else an error.
TrueStrings == {<<49>>, <<116>>, <<84>>, <<116, 114, 117, 101>>,
                <<84, 82, 85, 69>>, <<84, 114, 117, 101>>}
FalseStrings == {<<48>>, <<102>>, <<70>>, <<102, 97, 108, 115, 101>>,
                 <<70, 65, 76, 83, 69>>, <<70, 97, 108, 115, 101>>}

\* The option variables and their defaults (boolAlias, stringAlias, fs.Bool).
DefaultFlags ==
    [encode |-> TRUE, decode |-> FALSE, inputFile |-> <<>>, inputText |-> <<>>,
     outputPath |-> <<>>, v4 |-> TRUE, v7 |-> TRUE, crypto |-> FALSE]

\* The flags newB64Command binds: a short and a long alias per variable.
B64FlagSet ==
    [e |-> [var |-> "encode", isBool |-> TRUE],
     encode |-> [var |-> "encode", isBool |-> TRUE],
     d |-> [var |-> "decode", isBool |-> TRUE],
     decode |-> [var |-> "decode", isBool |-> TRUE],
     in |-> [var |-> "inputFile", isBool |-> FALSE],
     input |-> [var |-> "inputFile", isBool |-> FALSE],
     t |-> [var |-> "inputText", isBool |-> FALSE],
     text |-> [var |-> "inputText", isBool |-> FALSE],
     o |-> [var |-> "outputPath", isBool |-> FALSE],
     output |-> [var |-> "outputPath", isBool |-> FALSE]]

\* The flags newUuidCommand binds.
UuidFlagSet ==
    [v4 |-> [var |-> "v4", isBool |-> TRUE],
     v7 |-> [var |-> "v7", isBool |-> TRUE],
     crypto |-> [var |-> "crypto", isBool |-> TRUE],
     c |-> [var |-> "crypto", isBool |-> TRUE]]

\* cmds of main: the registered commands, in order.
Commands ==
    <<[Name |-> "base64", Short |-> "b64", FS |-> B64FlagSet],
      [Name |-> "uuid", Short |-> "b64", FS |-> UuidFlagSet]>>

RECURSIVE FSParse(_, _, _)
\* FlagSet.Parse under flag.ExitOnError (newFlagSet, and flag.CommandLine):
\* flags are read up to the first bare word; an undefined flag or a bad
\* boolean prints a message and the usage and exits the process with 2,
\* -h/-help with 0; "--" ends the flags.  String flags are given as
\* -name=value.
FSParse(defs, args, fl) ==
    IF args = <<>> THEN [flags |-> fl, rest |-> <<>>, exited |-> FALSE, code |-> 0]
    ELSE LET a == Head(args) IN
        IF ~a.dash
        THEN [flags |-> fl, rest |-> args, exited |-> FALSE, code |-> 0]
        ELSE IF a = Terminator
        THEN [flags |-> fl, rest |-> Tail(args), exited |-> FALSE, code |-> 0]
        ELSE IF a.name \notin DOMAIN defs
        THEN [flags |-> fl, rest |-> Tail(args), exited |-> TRUE,
              code |-> IF a.name \in {"h", "help"} THEN 0 ELSE 2]
        ELSE LET d == defs[a.name] IN
            IF d.isBool /\ ~a.hasVal
            THEN FSParse(defs, Tail(args), [fl EXCEPT ![d.var] = TRUE])
            ELSE IF d.isBool /\ a.val \in TrueStrings
            THEN FSParse(defs, Tail(args), [fl EXCEPT ![d.var] = TRUE])
            ELSE IF d.isBool /\ a.val \in FalseStrings
            THEN FSParse(defs, Tail(args), [fl EXCEPT ![d.var] = FALSE])
            ELSE IF ~d.isBool /\ a.hasVal
            THEN FSParse(defs, Tail(args), [fl EXCEPT ![d.var] = a.val])
            ELSE [flags |-> fl, rest |-> Tail(args), exited |-> TRUE, code |-> 2]

\* A lookup that falls back to the first command when no name matches.
ResolveOrFirst(cmds, cmdName) ==
    IF \E i \in 1..Len(cmds) : cmds[i].Name = cmdName \/ cmds[i].Short = cmdName
    THEN CHOOSE i \in 1..Len(cmds) :
            /\ cmds[i].Name = cmdName \/ cmds[i].Short = cmdName
            /\ \A j \in 1..(i - 1) : ~(cmds[j].Name = cmdName \/ cmds[j].Short = cmdName)
    ELSE 1

\* The loop of run: the index of the first command whose Name or Short is
\* cmdName, 0 when there is none.
Resolve(cmds, cmdName) ==
    IF \E i \in 1..Len(cmds) : cmds[i].Name = cmdName \/ cmds[i].Short = cmdName
    THEN CHOOSE i \in 1..Len(cmds) :
            /\ cmds[i].Name = cmdName \/ cmds[i].Short = cmdName
            /\ \A j \in 1..(i - 1) : ~(cmds[j].Name = cmdName \/ cmds[j].Short = cmdName)
    ELSE 0

(***************************************************************************)
(* Errors of the program: the message and whether errs.Wrap made it.       *)
(***************************************************************************)
NoErr == [msg |-> "", wrapped |-> FALSE]
NewErr(msg) == [msg |-> msg, wrapped |-> FALSE]
WrapErr(msg) == [msg |-> msg, wrapped |-> TRUE]

(***************************************************************************)
(* readInput and writeOutput.                                              *)
(***************************************************************************)
\* os.ReadFile(filePath) and its error check.
ReadFile(filePath, fs) ==
    IF filePath \in DOMAIN fs /\ fs[filePath].exists
    THEN [data |-> fs[filePath].data, err |-> NoErr, opened |-> <<"file">>]
    ELSE [data |-> <<>>, err |-> WrapErr("failed to read file"), opened |-> <<"file">>]

\* io.ReadAll(os.Stdin) and its error check.
ReadStdin(sin) ==
    IF sin.mode = "pipe_readerr"
    THEN [data |-> <<>>, err |-> WrapErr("failed to read text from stdin"),
          opened |-> <<"stdin">>]
    ELSE [data |-> sin.data, err |-> NoErr, opened |-> <<"stdin">>]

\* clipboard.Read() and what follows it: an empty clipboard is no input.
ReadClipboard(clip) ==
    IF ~clip.ok
    THEN [data |-> <<>>, err |-> WrapErr("failed to read clipboard content"),
          opened |-> <<"clipboard">>]
    ELSE IF Len(clip.data) > 0
    THEN [data |-> clip.data, err |-> NoErr, opened |-> <<"clipboard">>]
    ELSE [data |-> <<>>, err |-> NewErr("no input provided"),
          opened |-> <<"clipboard">>]

\* A readInput that looks at the file before the text.
ReadInputFileFirst(filePath, text, fs, sin, clip) ==
    IF filePath # <<>> THEN ReadFile(filePath, fs)
    ELSE IF text # <<>> THEN [data |-> text, err |-> NoErr, opened |-> <<>>]
    ELSE IF sin.mode = "stat_err"
    THEN [data |-> <<>>, err |-> WrapErr("failed to stat stdin"), opened |-> <<>>]
    ELSE IF sin.mode # "chardev" THEN ReadStdin(sin)
    ELSE ReadClipboard(clip)

\* A readInput that goes on to the clipboard when the pipe delivers nothing.
ReadInputSkipEmptyPipe(filePath, text, fs, sin, clip) ==
    IF text # <<>> THEN [data |-> text, err |-> NoErr, opened |-> <<>>]
    ELSE IF filePath # <<>> THEN ReadFile(filePath, fs)
    ELSE IF sin.mode = "stat_err"
    THEN [data |-> <<>>, err |-> WrapErr("failed to stat stdin"), opened |-> <<>>]
    ELSE IF sin.mode # "chardev" /\ ReadStdin(sin) # [data |-> <<>>, err |-> NoErr, opened |-> <<"stdin">>]
    THEN ReadStdin(sin)
    ELSE ReadClipboard(clip)

\* readInput(filePath, text): explicit text, then the file, then a stdin that
\* is no character device, then the clipboard.  opened lists the sources it
\* opened or read.
ReadInput(filePath, text, fs, sin, clip) ==
    IF text # <<>> THEN [data |-> text, err |-> NoErr, opened |-> <<>>]
    ELSE IF filePath # <<>> THEN ReadFile(filePath, fs)
    ELSE IF sin.mode = "stat_err"
    THEN [data |-> <<>>, err |-> WrapErr("failed to stat stdin"), opened |-> <<>>]
    ELSE IF sin.mode # "chardev" THEN ReadStdin(sin)
    ELSE ReadClipboard(clip)

\* The outcomes of os.WriteFile and of io.Copy to os.Stdout.
FileOutcomes == {"ok", "open_fails", "write_fails"}
\* What a failed write of data leaves behind: a proper prefix of it.
Partial(data) ==
    IF data = <<>> THEN {<<>>} ELSE {SubSeq(data, 1, n) : n \in 0..(Len(data) - 1)}

\* A writeOutput that prints to stdout only when no file path is given.
WriteOutputEitherOr(filePath, data, fs, so, fw, copyOK) ==
    IF filePath # <<>> /\ fw = "open_fails"
    THEN {[fs |-> fs, stdout |-> so, err |-> WrapErr("failed to write data to file")]}
    ELSE IF filePath # <<>> /\ fw = "write_fails"
    THEN {[fs |-> [fs EXCEPT ![filePath] = [exists |-> TRUE, data |-> p]],
           stdout |-> so, err |-> WrapErr("failed to write data to file")]
          : p \in Partial(data)}
    ELSE IF filePath # <<>>
    THEN {[fs |-> [fs EXCEPT ![filePath] = [exists |-> TRUE, data |-> data]],
           stdout |-> so, err |-> NoErr]}
    ELSE {[fs |-> fs, stdout |-> so \o c,
           err |-> IF copyOK THEN NoErr
                   ELSE WrapErr("failed to write output to stdout")]
          : c \in IF copyOK THEN {data} ELSE Partial(data)}

\* writeOutput(filePath, data) on file system fs and standard output so, with
\* the file write ending fw and the copy to stdout succeeding or not: the
\* set of results.  A failed write leaves a created or truncated file holding
\* a prefix of data, a failed copy a prefix of data on stdout.
WriteOutput(filePath, data, fs, so, fw, copyOK) ==
    LET written == [exists |-> TRUE, data |-> data]
        copies == IF copyOK THEN {data} ELSE Partial(data)
        stdoutErr == IF copyOK THEN NoErr
                     ELSE WrapErr("failed to write output to stdout")
    IN IF filePath # <<>> /\ fw = "open_fails"
       THEN {[fs |-> fs, stdout |-> so, err |-> WrapErr("failed to write data to file")]}
       ELSE IF filePath # <<>> /\ fw = "write_fails"
       THEN {[fs |-> [fs EXCEPT ![filePath] = [exists |-> TRUE, data |-> p]],
              stdout |-> so, err |-> WrapErr("failed to write data to file")]
             : p \in Partial(data)}
       ELSE {[fs |-> IF filePath # <<>> THEN [fs EXCEPT ![filePath] = written] ELSE fs,
              stdout |-> so \o c, err |-> stdoutErr] : c \in copies}

(***************************************************************************)
(* The command handlers.                                                   *)
(***************************************************************************)
\* The record of one call of writeOutput: its arguments, how the file write
\* and the copy to stdout ended, and the error it returned.
Call(path, data, fw, copyOK, err) ==
    [path |-> path, data |-> data, fw |-> fw, copyOK |-> copyOK, err |-> err]

\* A handler that writes what was decoded before it looks at the decode error.
B64RunWriteFirst(fl, fs, sin, clip, so, fw, copyOK) ==
    LET input == ReadInput(fl.inputFile, fl.inputText, fs, sin, clip)
        t == B64Transform(fl.encode, fl.decode, input.data)
    IN IF input.err # NoErr
       THEN {[err |-> input.err, input |-> input.data, opened |-> input.opened,
              calls |-> <<>>, fs |-> fs, stdout |-> so]}
       ELSE {[err |-> IF t.ok THEN w.err ELSE WrapErr("failed to encode content"),
              input |-> input.data, opened |-> input.opened,
              calls |-> <<Call(fl.outputPath, t.output, fw, copyOK, w.err)>>,
              fs |-> w.fs, stdout |-> w.stdout]
             : w \in WriteOutput(fl.outputPath, t.output, fs, so, fw, copyOK)}

\* The Run closure of newB64Command on option values fl: the set of results,
\* one per way the writes can end.  calls lists the calls of writeOutput.
B64Run(fl, fs, sin, clip, so, fw, copyOK) ==
    LET input == ReadInput(fl.inputFile, fl.inputText, fs, sin, clip)
        t == B64Transform(fl.encode, fl.decode, input.data)
    IN IF input.err # NoErr
       THEN {[err |-> input.err, input |-> input.data, opened |-> input.opened,
              calls |-> <<>>, fs |-> fs, stdout |-> so]}
       ELSE IF ~t.ok
       THEN {[err |-> WrapErr("failed to encode content"), input |-> input.data,
              opened |-> input.opened, calls |-> <<>>, fs |-> fs, stdout |-> so]}
       ELSE {[err |-> w.err, input |-> input.data, opened |-> input.opened,
              calls |-> <<Call(fl.outputPath, t.output, fw, copyOK, w.err)>>,
              fs |-> w.fs, stdout |-> w.stdout]
             : w \in WriteOutput(fl.outputPath, t.output, fs, so, fw, copyOK)}

\* The switch of the uuid handler: the generator function it calls ("" when
\* no case applies and output stays the empty string).
UuidGenerator(v4, v7, crypto) ==
    IF v4 /\ ~crypto THEN "MustV4PseudoString"
    ELSE IF v4 /\ crypto THEN "NewV4CryptoString"
    ELSE IF v7 /\ ~crypto THEN "MustV7PseudoString"
    ELSE IF v7 /\ crypto THEN "NewV4CryptoString"
    ELSE ""

\* The version of the UUIDs a generator function of the uuid package makes.
GeneratorVersion(gen) ==
    IF gen \in {"MustV7PseudoString", "NewV7CryptoString"} THEN 55 ELSE 52

\* The generators that read the cryptographic source, and so may fail.
CryptoGenerators == {"NewV4CryptoString", "NewV7CryptoString"}

\* A canonical UUID string: 36 characters, hyphens at 9, 14, 19 and 24, the
\* version digit at 15, a variant digit (8, 9, a or b) at 20, and the hex
\* digit r, standing for the random and timestamp digits, elsewhere.
UUIDString(version, r) ==
    [i \in 1..36 |->
        IF i \in {9, 14, 19, 24} THEN 45
        ELSE IF i = 15 THEN version
        ELSE IF i = 20 THEN (IF r < 58 THEN 56 ELSE 98)
        ELSE r]

\* The hex digits the model's generators draw: '0' and 'f'.
RandHex == {48, 102}

\* The Run closure of newUuidCommand: the set of results.
UuidRun(fl, fs, so, cryptoOK, r, copyOK) ==
    LET gen == UuidGenerator(fl.v4, fl.v7, fl.crypto)
        output == IF gen = "" THEN <<>> ELSE UUIDString(GeneratorVersion(gen), r)
    IN IF gen \in CryptoGenerators /\ ~cryptoOK
       THEN {[err |-> NewErr("crypto source failed"), generator |-> gen,
              calls |-> <<>>, fs |-> fs, stdout |-> so]}
       ELSE {[err |-> w.err, generator |-> gen,
              calls |-> <<Call(<<>>, output, "ok", copyOK, w.err)>>,
              fs |-> w.fs, stdout |-> w.stdout]
             : w \in WriteOutput(<<>>, output, fs, so, "ok", copyOK)}

\* usage(err, cmds): the lines written to os.Stderr.
Usage(err, cmds) ==
    <<<<err.msg>>, <<"Usage:">>, <<"[global flags] <command> [flags]">>,
      <<"Global flags:">>, <<"Commands:">>>>
    \o [i \in 1..Len(cmds) |-> <<"  -", cmds[i].Name, " (or -", cmds[i].Short, ")">>]
    \o <<<<"Run '<command> -h' for details.">>>>

\* What the flag package prints before it exits the process.
FlagExitLines(fsName) == <<<<"flag: parse error or help requested">>, <<"usage of ", fsName>>>>

(***************************************************************************)
(* Spec: one invocation of the program.                                    *)
(***************************************************************************)
PathF == <<102>>
PathG == <<103>>
Paths == {PathF, PathG}
\* "hi", and its unpadded encoding "aGk"
TextHi == <<104, 105>>
TextB64 == <<97, 71, 107>>
\* "!!!"
TextBad == <<33, 33, 33>>
\* "aGk\n", as a pipe from echo delivers it
PipeData == <<97, 71, 107, 10>>
\* "!c", which is no base64
ClipData == <<33, 99>>

\* The flag arguments the model draws after the command name.
FlagTokens ==
    {Flag("d"), FlagVal("e", <<48>>), FlagVal("t", TextB64), FlagVal("text", TextBad),
     FlagVal("in", PathF), FlagVal("o", PathG),
     FlagVal("v4", <<48>>), FlagVal("v7", <<102, 97, 108, 115, 101>>), Flag("c")}

CmdWords == {"base64", "b64", "uuid", "foo"}

ArgVectors ==
    {<<>>, <<Terminator>>, <<Flag("h")>>, <<Flag("x")>>}
    \cup {<<Word(c)>> \o fs : c \in CmdWords, fs \in SeqsUpTo(FlagTokens, MaxArgs)}

NoFile == [exists |-> FALSE, data |-> <<>>]
FileStates == {NoFile, [exists |-> TRUE, data |-> TextHi]}
StdinStates ==
    {[mode |-> "chardev", data |-> <<>>], [mode |-> "stat_err", data |-> <<>>],
     [mode |-> "pipe_readerr", data |-> <<>>],
     [mode |-> "pipe", data |-> <<>>], [mode |-> "pipe", data |-> PipeData]}
ClipboardStates ==
    {[ok |-> FALSE, data |-> <<>>], [ok |-> TRUE, data |-> <<>>],
     [ok |-> TRUE, data |-> ClipData]}

CodecIdle ==
    /\ cpc = "idle" /\ cInput = <<>> /\ cEncoded = <<>>
    /\ cDecoded = [ok |-> TRUE, output |-> <<>>]
ErrsIdle == epc = "idle" /\ errCause = <<>> /\ errChain = <<>>
CliIdle ==
    /\ argv = <<>> /\ fileSys = <<>> /\ fs0 = <<>> /\ stdin = <<>>
    /\ clipboard = <<>> /\ pc = "idle" /\ flags = DefaultFlags /\ selected = ""
    /\ parsedBy = <<>> /\ invoked = <<>> /\ inputRead = <<>> /\ opened = <<>>
    /\ writerCalls = <<>> /\ generator = ""
    /\ stdout = <<>> /\ stderr = <<>> /\ runErr = NoErr /\ exitCode = 0

Init ==
    /\ argv \in ArgVectors
    /\ fileSys \in [Paths -> FileStates]
    /\ fs0 = fileSys
    /\ stdin \in StdinStates
    /\ clipboard \in ClipboardStates
    /\ pc = "start"
    /\ flags = DefaultFlags
    /\ selected = ""
    /\ parsedBy = <<>>
    /\ invoked = <<>>
    /\ inputRead = <<>>
    /\ opened = <<>>
    /\ writerCalls = <<>>
    /\ generator = ""
    /\ stdout = <<>>
    /\ stderr = <<>>
    /\ runErr = NoErr
    /\ exitCode = 0
    /\ CodecIdle
    /\ ErrsIdle

\* flag.CommandLine defines no flag.
GlobalFlagSet == [n \in {} |-> [var |-> "", isBool |-> FALSE]]

\* run, up to the call of the handler: parse the global flags, take the first
\* positional argument as the command name, find the command, parse the rest
\* with its flag set.
Run ==
    /\ pc = "start"
    /\ LET g == FSParse(GlobalFlagSet, argv, flags)
           i == Resolve(Commands, g.rest[1].name)
           p == FSParse(Commands[i].FS, Tail(g.rest), flags)
       IN IF g.exited
          THEN /\ pc' = "exited"
               /\ exitCode' = g.code
               /\ stderr' = stderr \o FlagExitLines("")
               /\ UNCHANGED <<flags, selected, parsedBy, runErr>>
          ELSE IF Len(g.rest) = 0
          THEN /\ pc' = "returned"
               /\ runErr' = NewErr("could't figure out command")
               /\ UNCHANGED <<flags, selected, parsedBy, stderr, exitCode>>
          ELSE IF i = 0
          THEN /\ pc' = "returned"
               /\ runErr' = NewErr("is unknown command")
               /\ UNCHANGED <<flags, selected, parsedBy, stderr, exitCode>>
          ELSE IF p.exited
          THEN /\ pc' = "exited"
               /\ exitCode' = p.code
               /\ parsedBy' = Append(parsedBy, Commands[i].Name)
               /\ stderr' = stderr \o FlagExitLines(Commands[i].Name)
               /\ UNCHANGED <<flags, selected, runErr>>
          ELSE /\ pc' = "handler"
               /\ flags' = p.flags
               /\ selected' = Commands[i].Name
               /\ parsedBy' = Append(parsedBy, Commands[i].Name)
               /\ UNCHANGED <<stderr, runErr, exitCode>>
    /\ UNCHANGED <<argv, fileSys, fs0, stdin, clipboard, invoked, inputRead, opened,
                   writerCalls, generator, stdout>>
    /\ UNCHANGED <<codecVars, errsVars>>

\* c.Run(ctx) for the base64 command, and run returning its error.
B64Handler ==
    /\ pc = "handler" /\ selected = "base64"
    /\ \E fw \in FileOutcomes, copyOK \in BOOLEAN :
        \E r \in B64Run(flags, fileSys, stdin, clipboard, stdout, fw, copyOK) :
            /\ runErr' = r.err
            /\ inputRead' = r.input
            /\ opened' = opened \o r.opened
            /\ writerCalls' = writerCalls \o r.calls
            /\ fileSys' = r.fs
            /\ stdout' = r.stdout
    /\ invoked' = Append(invoked, "base64")
    /\ pc' = "returned"
    /\ UNCHANGED <<argv, fs0, stdin, clipboard, flags, selected, parsedBy,
                   generator, stderr, exitCode>>
    /\ UNCHANGED <<codecVars, errsVars>>

\* c.Run(ctx) for the uuid command, and run returning its error.
UuidHandler ==
    /\ pc = "handler" /\ selected = "uuid"
    /\ \E cryptoOK \in BOOLEAN, rnd \in RandHex, copyOK \in BOOLEAN :
        \E r \in UuidRun(flags, fileSys, stdout, cryptoOK, rnd, copyOK) :
            /\ runErr' = r.err
            /\ generator' = r.generator
            /\ writerCalls' = writerCalls \o r.calls
            /\ fileSys' = r.fs
            /\ stdout' = r.stdout
    /\ invoked' = Append(invoked, "uuid")
    /\ pc' = "returned"
    /\ UNCHANGED <<argv, fs0, stdin, clipboard, flags, selected, parsedBy, inputRead,
                   opened, stderr, exitCode>>
    /\ UNCHANGED <<codecVars, errsVars>>

\* main after run returns: on an error the usage and os.Exit(2).
MainExit ==
    /\ pc = "returned"
    /\ pc' = "exited"
    /\ IF runErr # NoErr
       THEN stderr' = stderr \o Usage(runErr, Commands) /\ exitCode' = 2
       ELSE stderr' = stderr /\ exitCode' = 0
    /\ UNCHANGED <<argv, fileSys, fs0, stdin, clipboard, flags, selected, parsedBy,
                   invoked, inputRead, opened, writerCalls, generator, stdout, runErr>>
    /\ UNCHANGED <<codecVars, errsVars>>

Next == Run \/ B64Handler \/ UuidHandler \/ MainExit

Spec == Init /\ [][Next]_vars

(***************************************************************************)
(* SpecCodec: the base64 command run in encode mode on a byte string, then *)
(* run in decode mode on what the first run wrote.                         *)
(***************************************************************************)
\* The byte values the inputs are drawn from: they reach the first and the
\* last characters of the alphabet ('A', '+', '/'), and include the line
\* feed, '=' and a byte with only the top bit set.
CodecBytes == {0, 10, 61, 104, 128, 251, 255}

InitCodec ==
    /\ cpc = "input"
    /\ cInput \in SeqsUpTo(CodecBytes, MaxLen)
    /\ cEncoded = <<>>
    /\ cDecoded = [ok |-> TRUE, output |-> <<>>]
    /\ CliIdle
    /\ ErrsIdle

\* The handler's transformation with the flags as parsed from no flag at all
\* (encode is true by default).
CodecEncode ==
    /\ cpc = "input"
    /\ cEncoded' = B64Transform(DefaultFlags.encode, DefaultFlags.decode, cInput).output
    /\ cpc' = "encoded"
    /\ UNCHANGED <<cInput, cDecoded, cliVars, errsVars>>

\* The handler's transformation with -d given, with or without -e=false.
CodecDecode ==
    /\ cpc = "encoded"
    /\ \E e \in BOOLEAN : cDecoded' = B64Transform(e, TRUE, cEncoded)
    /\ cpc' = "decoded"
    /\ UNCHANGED <<cInput, cEncoded, cliVars, errsVars>>

NextCodec == CodecEncode \/ CodecDecode

SpecCodec == InitCodec /\ [][NextCodec]_vars

(***************************************************************************)
(* SpecErrs: src/pkg/errs.  An error value is [type, text, fields, unwrap]: *)
(* its dynamic type, the fragments of its Error() text, the fragments fmt   *)
(* prints for its fields, and what Unwrap returns (<<>> for nil, <<e>> for  *)
(* e).  A StackError also carries msg.                                     *)
(***************************************************************************)
ErrnoENOENT ==
    [type |-> "syscall.Errno", text |-> <<"no such file or directory">>,
     fields |-> <<"2">>, unwrap |-> <<>>, msg |-> <<>>]

\* The causes the program wraps: io errors, and the *fs.PathError of
\* os.ReadFile, which itself unwraps to the errno.
Causes ==
    {[type |-> "*errors.errorString", text |-> <<"EOF">>,
      fields |-> <<"EOF">>, unwrap |-> <<>>, msg |-> <<>>],
     [type |-> "*errors.errorString", text |-> <<"broken pipe">>,
      fields |-> <<"broken pipe">>, unwrap |-> <<>>, msg |-> <<>>],
     [type |-> "*fs.PathError",
      text |-> <<"open", " ", "f", ": ", "no such file or directory">>,
      fields |-> <<"open", " ", "f", " ", "2">>,
      unwrap |-> <<ErrnoENOENT>>, msg |-> <<>>]}

\* The context messages Wrap is called with.
Contexts == {"failed to read file f", "failed to read text from stdin",
             "failed to write output to stdout"}

\* fmt.Sprintf of one operand under a verb: %s and %v print an error by its
\* Error method; %w is no verb of Sprintf (only of Errorf), so the operand
\* is printed as a bad verb, %!w(type=&{fields}), without calling Error.
Sprint(verb, arg) ==
    IF verb \in {"%s", "%v"} THEN arg.text
    ELSE <<"%!", "w", "(", arg.type, "=", "&{">> \o arg.fields \o <<"}", ")">>

\* (*StackError).Error: msg and the stack trace.
StackErrorText(msg) == msg \o <<"\nStack trace:\n", "frames">>

\* errs.New for a format that ends in one verb: a StackError whose msg is
\* the formatted text.  Its pcs print as one fragment.
New(prefix, verb, arg) ==
    LET m == prefix \o Sprint(verb, arg)
    IN [type |-> "*errs.StackError", text |-> StackErrorText(m),
        fields |-> m \o <<" ", "[pcs]">>, unwrap |-> <<>>, msg |-> m]

\* (*StackError).Unwrap returns nil; the other error types return what they
\* hold.
Unwrap(err) == IF err.type = "*errs.StackError" THEN <<>> ELSE err.unwrap

\* errs.Wrap(err, format): New(format + ": %w", err)
Wrap(err, format) == New(<<format, ": ">>, "%w", err)

RECURSIVE ErrorsIs(_, _)
\* errors.Is: err or an error of its Unwrap chain equals target.
ErrorsIs(err, target) ==
    \/ err = target
    \/ Unwrap(err) # <<>> /\ ErrorsIs(Unwrap(err)[1], target)

RECURSIVE ErrorsAs(_, _)
\* errors.As (errs.As): err or an error of its Unwrap chain has the type.
ErrorsAs(err, type) ==
    \/ err.type = type
    \/ Unwrap(err) # <<>> /\ ErrorsAs(Unwrap(err)[1], type)

\* Whether the fragments of part occur, in a row, in whole.
Contains(whole, part) ==
    \E i \in 0..(Len(whole) - Len(part)) :
        \A j \in 1..Len(part) : whole[i + j] = part[j]

InitErrs ==
    /\ epc = "cause"
    /\ errCause \in Causes
    /\ errChain = <<errCause>>
    /\ CliIdle
    /\ CodecIdle

\* One more errs.Wrap around the outermost error.
ErrsWrap ==
    /\ Len(errChain) <= MaxDepth
    /\ \E ctx \in Contexts :
        errChain' = Append(errChain, Wrap(errChain[Len(errChain)], ctx))
    /\ epc' = "wrapped"
    /\ UNCHANGED <<errCause, cliVars, codecVars>>

NextErrs == ErrsWrap

SpecErrs == InitErrs /\ [][NextErrs]_vars

(***************************************************************************)
(* The claims.                                                             *)
(***************************************************************************)
\* The named handler has run and returned.
HandlerDone(name) == pc \in {"returned", "exited"} /\ invoked = <<name>>

\* What the parse of the global flags leaves of argv.
GlobalParse == FSParse(GlobalFlagSet, argv, DefaultFlags)

\* C1: readInput takes the first source that applies, in the order text,
\* file, piped stdin, clipboard: what it returns is that source's bytes, and
\* it opens or reads no source of lower priority (no file with a text, no
\* clipboard with a piped stdin, whatever the clipboard holds).
C1_InputPriority ==
    HandlerDone("base64") =>
        /\ flags.inputText # <<>> =>
            opened = <<>> /\ inputRead = flags.inputText
        /\ (flags.inputText = <<>> /\ flags.inputFile # <<>>) =>
            /\ opened = <<"file">>
            /\ fs0[flags.inputFile].exists => inputRead = fs0[flags.inputFile].data
        /\ (flags.inputText = <<>> /\ flags.inputFile = <<>>
                /\ stdin.mode \in {"pipe", "pipe_readerr"}) =>
            /\ opened = <<"stdin">>
            /\ stdin.mode = "pipe" => (inputRead = stdin.data /\ runErr.msg # "no input provided")
        /\ (flags.inputText = <<>> /\ flags.inputFile = <<>> /\ stdin.mode = "chardev") =>
            /\ opened = <<"clipboard">>
            /\ (clipboard.ok /\ clipboard.data # <<>>) => inputRead = clipboard.data

\* C1's case: no text, no file, a pipe on stdin and a clipboard with content;
\* the pipe's bytes were returned and the clipboard was not read.
C1_Witness ==
    /\ HandlerDone("base64")
    /\ flags.inputText = <<>> /\ flags.inputFile = <<>>
    /\ stdin = [mode |-> "pipe", data |-> PipeData]
    /\ clipboard = [ok |-> TRUE, data |-> ClipData]
    /\ inputRead = PipeData /\ opened = <<"stdin">>

\* The situation of "no input provided": no text, no file, stdin a character
\* device, the clipboard read but empty.
NoInputCase ==
    /\ flags.inputText = <<>> /\ flags.inputFile = <<>>
    /\ stdin.mode = "chardev"
    /\ clipboard.ok /\ clipboard.data = <<>>

\* C2: with no text, no file, stdin a terminal and a clipboard that reads as
\* empty, readInput returns no bytes and the "no input provided" error, and
\* that error is returned in no other situation.
C2_NoInputProvided ==
    /\ runErr.msg = "no input provided" => (HandlerDone("base64") /\ NoInputCase)
    /\ (HandlerDone("base64") /\ NoInputCase) =>
        /\ runErr = NewErr("no input provided")
        /\ inputRead = <<>>
        /\ opened = <<"clipboard">>

\* C2's case: the handler returned in that situation.
C2_Witness ==
    HandlerDone("base64") /\ NoInputCase /\ runErr.msg = "no input provided"

\* C3: a command's full name and its short name both run that command: its
\* flag set parses the remaining arguments and its handler, and no other, is
\* invoked.
C3_NameRunsOwnCommand ==
    \A i \in 1..Len(Commands) :
        (/\ pc \in {"returned", "exited"}
         /\ ~GlobalParse.exited /\ GlobalParse.rest # <<>>
         /\ GlobalParse.rest[1].name \in {Commands[i].Name, Commands[i].Short}) =>
            /\ parsedBy = <<Commands[i].Name>>
            /\ invoked \in {<<>>, <<Commands[i].Name>>}

\* No positional argument is left after the global flags.
NoPositional == ~GlobalParse.exited /\ GlobalParse.rest = <<>>
\* The first positional argument is no command's name or short name.
UnknownName ==
    /\ ~GlobalParse.exited /\ GlobalParse.rest # <<>>
    /\ \A i \in 1..Len(Commands) :
        GlobalParse.rest[1].name \notin {Commands[i].Name, Commands[i].Short}

\* C4: with no positional argument run fails with the "no command" error,
\* with a first positional argument that names no command with the "unknown
\* command" error; in both cases no flag set parses, no handler runs, the
\* error message and then the usage listing go to the error stream, and the
\* process exits with status 2.
C4_NoOrUnknownCommand ==
    (pc # "start" /\ (NoPositional \/ UnknownName)) =>
        /\ pc \in {"returned", "exited"}
        /\ NoPositional => runErr = NewErr("could't figure out command")
        /\ UnknownName => runErr = NewErr("is unknown command")
        /\ parsedBy = <<>> /\ invoked = <<>> /\ writerCalls = <<>> /\ stdout = <<>>
        /\ pc = "exited" =>
            /\ exitCode = 2
            /\ stderr[1] = <<runErr.msg>>
            /\ stderr[2] = <<"Usage:">>
            /\ \A i \in 1..Len(Commands) : \E k \in 3..Len(stderr) :
                stderr[k] = <<"  -", Commands[i].Name, " (or -", Commands[i].Short, ")">>

\* C4's case: the process has exited on the unknown command foo.
C4_Witness ==
    /\ pc = "exited" /\ argv = <<Word("foo")>> /\ UnknownName
    /\ exitCode = 2 /\ stderr[1] = <<"is unknown command">>

\* The bytes the single call of the output writer was given.
Written == writerCalls[1].data

\* C5 as stated: decode if the decode flag is set, else encode if the encode
\* flag is set, and with neither flag set the output writer is given the
\* input bytes unchanged.
C5_NeitherPassesInputThrough ==
    (HandlerDone("base64") /\ writerCalls # <<>>) =>
        IF flags.decode THEN Written = AppendDecode(inputRead).out
        ELSE IF flags.encode THEN Written = AppendEncode(inputRead)
        ELSE Written = inputRead

\* The handler failed before the output writer: input resolution or decoding.
EarlyFailures ==
    {"failed to read file", "failed to stat stdin", "failed to read text from stdin",
     "failed to read clipboard content", "no input provided", "failed to encode content"}

\* C5, amended: decode if the decode flag is set (also when encode is set),
\* else encode if the encode flag is set; with neither flag set the output
\* writer is given no bytes at all, whatever the input.
C5_FlagPolicy ==
    HandlerDone("base64") =>
        /\ runErr.msg \notin EarlyFailures => Len(writerCalls) = 1
        /\ writerCalls # <<>> =>
            /\ flags.decode => Written = AppendDecode(inputRead).out
            /\ (~flags.decode /\ flags.encode) => Written = AppendEncode(inputRead)
            /\ (~flags.decode /\ ~flags.encode) => Written = <<>>
            /\ (flags.decode /\ inputRead = TextB64) => Written = TextHi
            /\ (~flags.decode /\ flags.encode /\ inputRead = TextHi) => Written = TextB64

\* C5's case: neither flag set, a non-empty input, nothing handed on.
C5_Witness ==
    /\ HandlerDone("base64")
    /\ ~flags.decode /\ ~flags.encode
    /\ inputRead = TextB64
    /\ Len(writerCalls) = 1 /\ Written = <<>>

\* C6: the uuid handler's generator follows the flags: v4 selected gives a v4
\* UUID, v7 selected without v4 a v7 UUID, from the pseudo-random generator
\* without the crypto flag and from the cryptographic generator of the same
\* version with it; the result goes to stdout only.
C6_GeneratorMatrix ==
    HandlerDone("uuid") =>
        /\ (flags.v4 /\ ~flags.crypto) => generator = "MustV4PseudoString"
        /\ (flags.v4 /\ flags.crypto) => generator = "NewV4CryptoString"
        /\ (~flags.v4 /\ flags.v7 /\ ~flags.crypto) => generator = "MustV7PseudoString"
        /\ (~flags.v4 /\ flags.v7 /\ flags.crypto) => generator = "NewV7CryptoString"
        /\ fileSys = fs0
        /\ \A k \in 1..Len(writerCalls) : writerCalls[k].path = <<>>

\* C7 as stated: writeOutput always copies exactly data to standard output,
\* path or no path (a copy that itself fails aside).
C7_AlwaysCopiesToStdout ==
    \A k \in 1..Len(writerCalls) :
        writerCalls[k].copyOK => stdout = writerCalls[k].data

\* The file write of a call of writeOutput failed.
FileFails(c) == c.path # <<>> /\ c.fw # "ok"

\* C7, amended: writeOutput copies exactly data to standard output whenever
\* the file write did not fail (no path, or the file was written); a written
\* file holds exactly data; with no path no file is touched; a failing file
\* write returns a wrapped error and nothing goes to stdout; a failing copy
\* to stdout returns a wrapped error.
C7_WriteOutput ==
    \A k \in 1..Len(writerCalls) :
        LET c == writerCalls[k] IN
        /\ FileFails(c) =>
            (c.err = WrapErr("failed to write data to file") /\ stdout = <<>>)
        /\ (~FileFails(c) /\ ~c.copyOK) =>
            c.err = WrapErr("failed to write output to stdout")
        /\ (~FileFails(c) /\ c.copyOK) => (c.err = NoErr /\ stdout = c.data)
        /\ (c.path # <<>> /\ c.fw = "ok") =>
            fileSys[c.path] = [exists |-> TRUE, data |-> c.data]
        /\ c.path = <<>> => fileSys = fs0
        /\ \A q \in Paths \ {c.path} : fileSys[q] = fs0[q]

\* C7's case: a path was given, the file could not be opened, stdout works,
\* and the data did not reach stdout.
C7_Witness ==
    /\ Len(writerCalls) = 1
    /\ writerCalls[1].path = PathG /\ writerCalls[1].fw = "open_fails"
    /\ writerCalls[1].copyOK /\ writerCalls[1].data = TextB64
    /\ stdout = <<>> /\ runErr.wrapped

\* C8: decoding the unpadded encoding of any byte string succeeds and gives
\* the byte string back: the command in encode mode, then in decode mode on
\* what it produced, returns the input.
C8_RoundTrip ==
    cpc = "decoded" => (cDecoded.ok /\ cDecoded.output = cInput)

\* C8's case: a two-byte input, whose encoding has three characters, the last
\* with spare bits, went through both runs.
C8_Witness ==
    /\ cpc = "decoded" /\ cInput = <<255, 251>>
    /\ Len(cEncoded) = 3 /\ cDecoded.output = cInput

\* C9: an error made by errs.Wrap carries the cause: the cause's text is part
\* of its message, and the cause is reached from it through Unwrap, so that
\* errors.Is and errors.As find the cause at any depth of wrapping.
C9_WrapKeepsCause ==
    \A k \in 2..Len(errChain) :
        /\ Contains(errChain[k].msg, errCause.text)
        /\ ErrorsIs(errChain[k], errCause)
        /\ ErrorsAs(errChain[k], errCause.type)

\* C10: when the base64 handler fails in input resolution or in decoding, the
\* output writer was not called: nothing is on stdout and no file was created
\* or truncated; the process writes the diagnostic to the error stream and
\* exits with status 2.  Decoding "!!!" is such a failure.
C10_FailureWritesNothing ==
    HandlerDone("base64") =>
        /\ (flags.decode /\ inputRead = TextBad) =>
            runErr = WrapErr("failed to encode content")
        /\ (flags.decode /\ AppendDecode(inputRead).err) =>
            runErr = WrapErr("failed to encode content")
        /\ runErr.msg \in EarlyFailures =>
            /\ writerCalls = <<>> /\ stdout = <<>> /\ fileSys = fs0
            /\ pc = "exited" => (exitCode = 2 /\ stderr[1] = <<runErr.msg>>)

\* C10's case: decode of a malformed clipboard with an output path naming an
\* existing file; the process has exited and the file is as it was.
C10_Witness ==
    /\ HandlerDone("base64") /\ pc = "exited"
    /\ flags.decode /\ flags.outputPath = PathG /\ fs0[PathG].exists
    /\ inputRead = ClipData
    /\ runErr.msg = "failed to encode content"
    /\ fileSys = fs0 /\ exitCode = 2

====
